---- MODULE Spec2Model ----
(***************************************************************************)
(* Model of the request-authentication gate of the fabric-ca (fabric-cop)  *)
(* server, src/cli/server/auth.go: the handler factory NewAuthWrapper and  *)
(* the gate copAuthHandler.ServeHTTP / serveHTTP.                          *)
(*                                                                         *)
(* A request is handled by one goroutine.  Its steps are split where the   *)
(* code reads state shared with other goroutines: the global CFG (line 85),*)
(* the user registry (line 101) and the certificate store (line 128).      *)
(***************************************************************************)
EXTENDS Integers, Sequences, FiniteSets, TLC

(***************************************************************************)
(* Bounds of the model.                                                    *)
(***************************************************************************)
MaxReq == 1          \* requests the server handles, possibly concurrently
MaxConc == 2         \* requests in flight together under a constant
                     \* configuration and store (SpecConc)

Requests == 1..MaxReq
ConcRequests == 1..MaxConc
Slots == 1..(IF MaxReq > MaxConc THEN MaxReq ELSE MaxConc)

(***************************************************************************)
(* Values.                                                                 *)
(***************************************************************************)
Nil == "nil"                                        \* Go's nil error
errNoAuthHdr == "errNoAuthHdr"                      \* package-level errors
errBasicAuthNotAllowed == "errBasicAuthNotAllowed"
authError == "authError"                            \* auth.go:39
errLogin == "errLogin"                              \* error of the registry
errSetup == "errSetup"                              \* an upstream setup error

\* Endpoint names the server registers.
Paths == {"sign", "enroll", "revoke"}

\* A nil http.Handler, and the handler a copAuthHandler pointer designates.
NilHandler == [nil |-> TRUE, basic |-> FALSE, token |-> FALSE, next |-> Nil]

(***************************************************************************)
(* Handler factory, auth.go:44-71 and 145-147.                             *)
(***************************************************************************)
wrappedPath(path) == "/api/v1/cfssl/" \o path

\* a slip: the upstream error is swallowed and a handler built all the same
newAuthHandlerMasksErr(basic, token, handler, errArg) ==
    [h |-> [nil |-> FALSE, basic |-> basic, token |-> token, next |-> handler],
     err |-> Nil]

newAuthHandler(basic, token, handler, errArg) ==
    IF errArg # Nil
    THEN [h |-> NilHandler, err |-> errArg]
    ELSE [h |-> [nil |-> FALSE, basic |-> basic, token |-> token,
                 next |-> handler],
          err |-> Nil]

newBasicAuthHandler(handler, errArg) ==
    newAuthHandler(TRUE, FALSE, handler, errArg)

newTokenAuthHandler(handler, errArg) ==
    newAuthHandler(FALSE, TRUE, handler, errArg)

\* a slip: "enroll" left out of the basic-auth set
IsBasicPathSignOnly(path) == path = "sign"

IsBasicPath(path) == path = "sign" \/ path = "enroll"

NewAuthWrapperResult(path, handler, err) ==
    LET res == IF IsBasicPath(path)
               THEN newBasicAuthHandler(handler, err)
               ELSE newTokenAuthHandler(handler, err)
    IN  [path |-> wrappedPath(path), handler |-> res.h, err |-> res.err]

(***************************************************************************)
(* Request headers.  An Authorization header value is a sequence of        *)
(* tokens; the empty sequence is the absent (or empty) header.  After the  *)
(* scheme prefix "Basic " the tokens are the base64 payload in decoded     *)
(* form, "!" standing for a payload that does not decode.                  *)
(***************************************************************************)
RECURSIVE IndexOf(_, _, _)
IndexOf(s, c, i) ==
    IF i > Len(s) THEN 0
    ELSE IF s[i] = c THEN i ELSE IndexOf(s, c, i + 1)

\* r.BasicAuth(), net/http parseBasicAuth
BasicAuth(authHdr) ==
    LET no == [user |-> <<>>, pwd |-> <<>>, ok |-> FALSE]
    IN  IF Len(authHdr) < 1 \/ authHdr[1] # "Basic " THEN no
        ELSE LET cs == Tail(authHdr)
                 s  == IndexOf(cs, ":", 1)
             IN  IF IndexOf(cs, "!", 1) # 0 THEN no
                 ELSE IF s = 0 THEN no
                 ELSE [user |-> SubSeq(cs, 1, s - 1),
                       pwd  |-> SubSeq(cs, s + 1, Len(cs)),
                       ok   |-> TRUE]

\* The header values clients present.
Headers ==
    { <<>>,
      <<"Basic ", "u1", ":", "p1">>,
      <<"Basic ", "u1", ":", "p2">>,
      <<"Basic ", "u1", "p1">>,
      <<"Basic ", "!">>,
      <<"certA", ".", "sig1">>,
      <<"certB", ".", "sig1">>,
      <<"certC", ".", "sig1">>,
      <<"certD", ".", "sig1">> }

(***************************************************************************)
(* Request bodies.  r.Body is a stream: the bytes, the read position and   *)
(* whether reading it fails.                                               *)
(***************************************************************************)
\* the body streams requests arrive with
Bodies ==
    { [data |-> <<1>>,    pos |-> 0, broken |-> FALSE],
      [data |-> <<2, 1>>, pos |-> 0, broken |-> FALSE],
      [data |-> <<2, 1>>, pos |-> 0, broken |-> TRUE] }

NewReader(b) == [data |-> b, pos |-> 0, broken |-> FALSE]

\* ioutil.ReadAll(r.Body): the unread bytes, or an error
ReadAll(stream) ==
    [bytes |-> SubSeq(stream.data, stream.pos + 1, Len(stream.data)),
     err   |-> IF stream.broken THEN "errRead" ELSE Nil]

\* the stream once its reader reached the end (or failed)
Drained(stream) == [stream EXCEPT !.pos = Len(stream.data)]

(***************************************************************************)
(* The capabilities the gate consumes.                                     *)
(***************************************************************************)
\* the enrollment secrets the user registry holds
Registry == { [user |-> <<"u1">>, pwd |-> <<"p1">>] }

\* cfg.UserRegistry.LoginUserBasicAuth(user, pwd): the error it returns
LoginUserBasicAuth(user, pwd) ==
    IF [user |-> user, pwd |-> pwd] \in Registry THEN Nil ELSE errLogin

NoCert == [SerialNumber |-> 0, AuthorityKeyId |-> <<>>]

\* the certificate a token carries
TokenCert(name) ==
    CASE name = "certA" -> [SerialNumber |-> 1,  AuthorityKeyId |-> <<10>>]
      [] name = "certB" -> [SerialNumber |-> 12, AuthorityKeyId |-> <<171>>]
      [] name = "certC" -> [SerialNumber |-> 3,  AuthorityKeyId |-> <<12, 1>>]
      [] name = "certD" -> [SerialNumber |-> 1,  AuthorityKeyId |-> <<12, 1>>]
      [] OTHER          -> NoCert

\* the signature of a body under the key of a token's certificate
Sign(body) ==
    IF body = <<1>> THEN "sig1"
    ELSE IF body = <<2, 1>> THEN "sig21" ELSE "sig"

\* util.VerifyToken(authHdr, body): the signer's certificate, or an error
VerifyToken(authHdr, body) ==
    IF /\ Len(authHdr) = 3
       /\ authHdr[2] = "."
       /\ TokenCert(authHdr[1]) # NoCert
       /\ authHdr[3] = Sign(body)
    THEN [cert |-> TokenCert(authHdr[1]), err |-> Nil]
    ELSE [cert |-> NoCert, err |-> "errToken"]

\* cert.SerialNumber.String(): the decimal digits of the serial number
Digit == <<"0", "1", "2", "3", "4", "5", "6", "7", "8", "9",
           "a", "b", "c", "d", "e", "f">>

RECURSIVE SerialString(_)
SerialString(n) ==
    IF n < 10 THEN Digit[n + 1]
    ELSE SerialString(n \div 10) \o Digit[(n % 10) + 1]

\* hex.EncodeToString(cert.AuthorityKeyId): two hex digits per byte
RECURSIVE EncodeToString(_)
EncodeToString(bytes) ==
    IF bytes = <<>> THEN ""
    ELSE Digit[(Head(bytes) \div 16) + 1] \o Digit[(Head(bytes) % 16) + 1]
         \o EncodeToString(Tail(bytes))

\* CFG.certDBAccessor.GetCertificate(serial, aki) on the store db; fails
\* says whether the store fails to answer this call
GetCertificate(db, serial, aki, fails) ==
    IF fails
    THEN [certs |-> <<>>, err |-> "errDB"]
    ELSE [certs |-> SelectSeq(db.rows,
                      LAMBDA row : row.serial = serial /\ row.aki = aki),
          err   |-> Nil]

\* the certificate records the store holds when the server starts
InitRows ==
    << [serial |-> "1", aki |-> "0a",   status |-> "good"],
       [serial |-> "1", aki |-> "0c01", status |-> "expired"],
       [serial |-> "3", aki |-> "0c01", status |-> "good"],
       [serial |-> "3", aki |-> "0c01", status |-> "good"] >>

(***************************************************************************)
(* State.                                                                  *)
(***************************************************************************)
VARIABLES
    routes,     \* per endpoint name: the result of its NewAuthWrapper call
    serving,    \* TRUE once the endpoints are registered and requests arrive
    CFG,        \* the global configuration: [Authentication]
    certDB,     \* the certificate store: [rows]
    req         \* per request: the goroutine handling it

vars == <<routes, serving, CFG, certDB, req>>

NoRoute == [called |-> FALSE, errArg |-> Nil, path |-> "",
            handler |-> NilHandler, err |-> Nil]

IdleReq ==
    [pc    |-> "idle",         \* idle, start, login, lookup, done
     path  |-> "",             \* the endpoint whose gate handles the request
     hdr   |-> <<>>,           \* the Authorization header
     in    |-> NewReader(<<>>),\* r.Body as the request arrived
     body  |-> NewReader(<<>>),\* r.Body
     auth  |-> "unread",       \* cfg.Authentication as read: on, off
     ba    |-> BasicAuth(<<>>),\* user, pwd, ok of r.BasicAuth()
     cert  |-> NoCert,         \* the certificate VerifyToken returned
     certs |-> <<>>,           \* the records GetCertificate returned
     dberr |-> Nil,            \* the error GetCertificate returned
     calls |-> {},             \* the capabilities called for the request
     err   |-> Nil,            \* what serveHTTP returned
     resp  |-> <<>>,           \* the errors written by api.HandleError
     fwd   |-> <<>>]           \* r.Body at each call of ah.next.ServeHTTP

\* the gate bound to the endpoint of request rq
Gate(rq) == routes[rq.path].handler

Init ==
    /\ routes = [p \in Paths |-> NoRoute]
    /\ serving = FALSE
    /\ CFG = [Authentication |-> TRUE]
    /\ certDB = [rows |-> InitRows]
    /\ req = [r \in Slots |-> IdleReq]

(***************************************************************************)
(* Start-up: every endpoint is wrapped once, then the server listens.      *)
(***************************************************************************)
NewAuthWrapper(path, handler, err) ==
    /\ ~serving
    /\ ~routes[path].called
    /\ routes' = [routes EXCEPT ![path] =
                    [called |-> TRUE, errArg |-> err]
                       @@ NewAuthWrapperResult(path, handler, err)]
    /\ UNCHANGED <<serving, CFG, certDB, req>>

Serve ==
    /\ ~serving
    /\ \A p \in Paths : routes[p].called
    /\ serving' = TRUE
    /\ UNCHANGED <<routes, CFG, certDB, req>>

(***************************************************************************)
(* The gate, auth.go:73-143.                                               *)
(***************************************************************************)
\* a slip: the else of line 77 left out, the next handler always runs
ServeHTTPNoElse(rq, err) ==
    IF err # Nil
    THEN [rq EXCEPT !.pc = "done", !.err = err, !.resp = Append(@, err),
                    !.fwd = Append(@, rq.body)]
    ELSE [rq EXCEPT !.pc = "done", !.err = err, !.fwd = Append(@, rq.body)]

\* ServeHTTP, lines 74-79, once serveHTTP returned err for request rq
ServeHTTP(rq, err) ==
    IF err # Nil
    THEN [rq EXCEPT !.pc = "done", !.err = err, !.resp = Append(@, err)]
    ELSE [rq EXCEPT !.pc = "done", !.err = err, !.fwd = Append(@, rq.body)]

\* slips in the conditions of serveHTTP, each dropping or weakening a check
AuthDisabledNever(cfg) == FALSE
NoAuthHdrNever(authHdr) == FALSE
BasicNotAllowedNever(ah) == FALSE
LoginFailedNever(err) == FALSE
VerifyFailedNever(err2) == FALSE
NotOneCertOnlyEmpty(certs) == Len(certs) = 0
NotGoodOnlyRevoked(certs) == certs[1].status = "revoked"
TokenRequiredAlways(ah) == TRUE
\* the store's error handed on like the registry's, not replaced
LookupErrorPropagated(err) == err
\* line 119 left out: r.Body stays at its end
RestoreOmitted(stream, body) == stream
\* a copy of the configuration, or of the store, taken when the gate was
\* built, in place of the live one
CurrentConfigCopied(cfg) == [Authentication |-> TRUE]
CurrentStoreCopied(db) == [rows |-> InitRows]

AuthDisabled(cfg) == ~cfg.Authentication              \* line 86
NoAuthHdr(authHdr) == authHdr = <<>>                  \* line 91
BasicNotAllowed(ah) == ~ah.basic                      \* line 97
LoginFailed(err) == err # Nil                         \* line 102
ReadFailed(err) == err # Nil                          \* line 116
VerifyFailed(err2) == err2 # Nil                      \* line 122
LookupFailed(err) == err # Nil                        \* line 129
NotOneCert(certs) == Len(certs) # 1                   \* line 133
NotGood(certs) == certs[1].status # "good"            \* line 137
TokenRequired(ah) == ah.token                         \* line 113
LookupError(err) == authError                         \* line 131
Restore(stream, body) == NewReader(body)              \* line 119
CurrentConfig(cfg) == cfg                             \* line 85
CurrentStore(db) == db                                \* line 128

\* a slip: the Authorization header is deleted once the body was read
TokenStepDropsHeader(rq) ==
    LET rd   == ReadAll(rq.body)
        rq1  == [rq EXCEPT !.calls = @ \cup {"readBody"},
                           !.body = Drained(@)]
        rq2  == [rq1 EXCEPT !.body = Restore(@, rd.bytes),
                            !.calls = @ \cup {"verify"},
                            !.hdr = <<>>]
        ver  == VerifyToken(rq.hdr, rd.bytes)
    IN  IF ReadFailed(rd.err) THEN ServeHTTP(rq1, authError)
        ELSE IF VerifyFailed(ver.err) THEN ServeHTTP(rq2, authError)
        ELSE [rq2 EXCEPT !.pc = "lookup", !.cert = ver.cert]

\* lines 115-124: read the body, restore it, verify the token
TokenStep(rq) ==
    LET rd   == ReadAll(rq.body)
        rq1  == [rq EXCEPT !.calls = @ \cup {"readBody"},
                           !.body = Drained(@)]
        rq2  == [rq1 EXCEPT !.body = Restore(@, rd.bytes),
                            !.calls = @ \cup {"verify"}]
        ver  == VerifyToken(rq.hdr, rd.bytes)
    IN  IF ReadFailed(rd.err) THEN ServeHTTP(rq1, authError)
        ELSE IF VerifyFailed(ver.err) THEN ServeHTTP(rq2, authError)
        ELSE [rq2 EXCEPT !.pc = "lookup", !.cert = ver.cert]

\* lines 85-100 and 113: serveHTTP up to its first call of a shared store
Enter(rq, ah, cfg) ==
    LET rq0 == [rq EXCEPT !.auth = IF cfg.Authentication THEN "on" ELSE "off"]
        ba  == BasicAuth(rq.hdr)
        rq1 == [rq0 EXCEPT !.ba = ba]
    IN  IF AuthDisabled(cfg) THEN ServeHTTP(rq0, Nil)
        ELSE IF NoAuthHdr(rq.hdr) THEN ServeHTTP(rq0, errNoAuthHdr)
        ELSE IF ba.ok
             THEN IF BasicNotAllowed(ah)
                  THEN ServeHTTP(rq1, errBasicAuthNotAllowed)
                  ELSE [rq1 EXCEPT !.pc = "login"]
        ELSE IF TokenRequired(ah) THEN TokenStep(rq1)
        ELSE ServeHTTP(rq1, Nil)

\* lines 101-111
AfterLogin(rq) ==
    LET err == LoginUserBasicAuth(rq.ba.user, rq.ba.pwd)
        rq1 == [rq EXCEPT !.calls = @ \cup {"login"}]
    IN  IF LoginFailed(err) THEN ServeHTTP(rq1, err) ELSE ServeHTTP(rq1, Nil)

\* lines 126-142
AfterLookup(rq, db, fails) ==
    LET serial == SerialString(rq.cert.SerialNumber)
        aki    == EncodeToString(rq.cert.AuthorityKeyId)
        res    == GetCertificate(db, serial, aki, fails)
        rq1    == [rq EXCEPT !.calls = @ \cup {"store"}, !.certs = res.certs,
                             !.dberr = res.err]
    IN  IF LookupFailed(res.err) THEN ServeHTTP(rq1, LookupError(res.err))
        ELSE IF NotOneCert(res.certs) THEN ServeHTTP(rq1, authError)
        ELSE IF NotGood(res.certs) THEN ServeHTTP(rq1, authError)
        ELSE ServeHTTP(rq1, Nil)

\* the server hands a request to the gate of a registered endpoint
Receive(r, path, hdr, body) ==
    /\ serving
    /\ req[r].pc = "idle"
    /\ ~routes[path].handler.nil
    /\ req' = [req EXCEPT ![r] =
                 [IdleReq EXCEPT !.pc = "start", !.path = path, !.hdr = hdr,
                                 !.in = body, !.body = body]]
    /\ UNCHANGED <<routes, serving, CFG, certDB>>

\* a slip: the header is kept in a place the requests share, so a request
\* may be judged on the header of another request in flight
AuthenticateSharedHeader(r) ==
    /\ req[r].pc = "start"
    /\ \E q \in Slots :
          /\ req[q].pc # "idle"
          /\ req' = [req EXCEPT ![r] =
                       [Enter([req[r] EXCEPT !.hdr = req[q].hdr],
                              Gate(req[r]), CurrentConfig(CFG))
                          EXCEPT !.hdr = req[r].hdr]]
    /\ UNCHANGED <<routes, serving, CFG, certDB>>

Authenticate(r) ==
    /\ req[r].pc = "start"
    /\ req' = [req EXCEPT ![r] = Enter(req[r], Gate(req[r]), CurrentConfig(CFG))]
    /\ UNCHANGED <<routes, serving, CFG, certDB>>

\* a slip: the gate rewrites its own policy once a login was tried
LoginRewritesGate(r) ==
    /\ req[r].pc = "login"
    /\ req' = [req EXCEPT ![r] = AfterLogin(req[r])]
    /\ routes' = [routes EXCEPT ![req[r].path].handler.basic = FALSE,
                                ![req[r].path].handler.token = TRUE]
    /\ UNCHANGED <<serving, CFG, certDB>>

Login(r) ==
    /\ req[r].pc = "login"
    /\ req' = [req EXCEPT ![r] = AfterLogin(req[r])]
    /\ UNCHANGED <<routes, serving, CFG, certDB>>

Lookup(r, fails) ==
    /\ req[r].pc = "lookup"
    /\ req' = [req EXCEPT ![r] = AfterLookup(req[r], CurrentStore(certDB), fails)]
    /\ UNCHANGED <<routes, serving, CFG, certDB>>

(***************************************************************************)
(* The surrounding service.                                                *)
(***************************************************************************)
\* the flag is changed while the server runs, after the gates were built
SetAuthentication(b) ==
    /\ serving
    /\ CFG.Authentication # b
    /\ CFG' = [CFG EXCEPT !.Authentication = b]
    /\ UNCHANGED <<routes, serving, certDB, req>>

\* the record of certificate A is revoked
Revoke ==
    /\ certDB.rows[1].status = "good"
    /\ certDB' = [certDB EXCEPT !.rows[1].status = "revoked"]
    /\ UNCHANGED <<routes, serving, CFG, req>>

Next ==
    \/ \E path \in Paths, err \in {Nil, errSetup} :
          NewAuthWrapper(path, path, err)
    \/ Serve
    \/ \E r \in Requests, path \in Paths, hdr \in Headers,
          body \in Bodies :
          Receive(r, path, hdr, body)
    \/ \E r \in Requests : Authenticate(r)
    \/ \E r \in Requests : Login(r)
    \/ \E r \in Requests, fails \in BOOLEAN : Lookup(r, fails)
    \/ \E b \in BOOLEAN : SetAuthentication(b)
    \/ Revoke

Spec == Init /\ [][Next]_vars

TypeOK ==
    /\ serving \in BOOLEAN
    /\ \A r \in Requests :
          req[r].pc \in {"idle", "start", "login", "lookup", "done"}

(***************************************************************************)
(* Vocabulary of the properties.                                           *)
(***************************************************************************)
Done(rq) == rq.pc = "done"
Forwarded(rq) == rq.fwd # <<>>
RejectedWith(rq, e) == rq.err = e /\ rq.resp = <<e>> /\ rq.fwd = <<>>
BasicOnly(ah) == ~ah.nil /\ ah.basic /\ ~ah.token
TokenOnly(ah) == ~ah.nil /\ ~ah.basic /\ ah.token
IssuanceNames == {"sign", "enroll"}
OtherNames == {"revoke", "register", "tcert", "Sign", "enrol", "enroll2", ""}

(***************************************************************************)
(* C1.  With authentication enabled, a request is forwarded to the next    *)
(* handler only if, during that request, the registry login accepted the   *)
(* Basic credential it presented (BasicOnly gate) or its token verified    *)
(* and the store returned exactly one record, of status "good" (TokenOnly  *)
(* gate).  The code forwards every request with a non-Basic header on a    *)
(* BasicOnly gate without any check, so TLC refutes this statement.        *)
(***************************************************************************)
C1_ForwardedOnlyIfAuthenticated ==
    \A r \in Requests :
       (req[r].auth = "on" /\ Forwarded(req[r])) =>
          \/ /\ BasicOnly(Gate(req[r]))
             /\ req[r].ba.ok
             /\ "login" \in req[r].calls
             /\ LoginUserBasicAuth(req[r].ba.user, req[r].ba.pwd) = Nil
          \/ /\ TokenOnly(Gate(req[r]))
             /\ "verify" \in req[r].calls
             /\ req[r].cert # NoCert
             /\ "store" \in req[r].calls
             /\ req[r].dberr = Nil
             /\ Len(req[r].certs) = 1
             /\ req[r].certs[1].status = "good"

(***************************************************************************)
(* C2.  On a BasicOnly gate with authentication enabled, a request whose   *)
(* Authorization header is present but is not HTTP Basic credentials is    *)
(* rejected with authError and not forwarded.  The code returns nil at     *)
(* line 142 for it, so TLC refutes this statement.                         *)
(***************************************************************************)
C2_MalformedBasicRejected ==
    \A r \in Requests :
       ( /\ Done(req[r])
         /\ req[r].auth = "on"
         /\ BasicOnly(Gate(req[r]))
         /\ req[r].hdr # <<>>
         /\ ~BasicAuth(req[r].hdr).ok ) =>
          RejectedWith(req[r], authError)

(***************************************************************************)
(* C3.  Every handler NewAuthWrapper constructs is BasicOnly (basic, not   *)
(* token) when the endpoint name is "sign" or "enroll" and TokenOnly (not  *)
(* basic, token) for every other name; it has exactly one of the two       *)
(* policies.                                                               *)
(***************************************************************************)
C3_PolicyByEndpoint ==
    /\ \A p \in Paths :
          (routes[p].called /\ ~routes[p].handler.nil) =>
             /\ (p \in IssuanceNames) => BasicOnly(routes[p].handler)
             /\ (p \notin IssuanceNames) => TokenOnly(routes[p].handler)
             /\ routes[p].handler.basic # routes[p].handler.token
    /\ ~serving =>
          /\ \A p \in IssuanceNames :
                BasicOnly(NewAuthWrapperResult(p, p, Nil).handler)
          /\ \A p \in OtherNames :
                TokenOnly(NewAuthWrapperResult(p, p, Nil).handler)

C3_Witness ==
    /\ serving
    /\ \A p \in Paths : routes[p].called /\ ~routes[p].handler.nil

(***************************************************************************)
(* C4.  On a TokenOnly gate with authentication enabled, a request with    *)
(* well-formed Basic credentials is rejected with errBasicAuthNotAllowed   *)
(* and not forwarded, and the registry is not asked, whether or not it     *)
(* would accept the credentials.                                           *)
(***************************************************************************)
C4_BasicOnTokenRouteRejected ==
    \A r \in Requests :
       ( /\ req[r].pc \in {"login", "lookup", "done"}
         /\ req[r].auth = "on"
         /\ TokenOnly(Gate(req[r]))
         /\ BasicAuth(req[r].hdr).ok ) =>
          /\ Done(req[r])
          /\ RejectedWith(req[r], errBasicAuthNotAllowed)
          /\ "login" \notin req[r].calls

C4_Witness ==
    \E r \in Requests :
       /\ Done(req[r])
       /\ req[r].auth = "on"
       /\ TokenOnly(Gate(req[r]))
       /\ req[r].ba.ok
       /\ LoginUserBasicAuth(req[r].ba.user, req[r].ba.pwd) = Nil
       /\ req[r].err = errBasicAuthNotAllowed

(***************************************************************************)
(* C5.  On a BasicOnly gate with authentication enabled, a request with    *)
(* well-formed Basic credentials is forwarded if and only if the registry  *)
(* login accepts its (username, secret); when the registry rejects them    *)
(* the request is rejected and not forwarded.                              *)
(***************************************************************************)
C5_BasicForwardedIffLogin ==
    \A r \in Requests :
       ( /\ Done(req[r])
         /\ req[r].auth = "on"
         /\ BasicOnly(Gate(req[r]))
         /\ BasicAuth(req[r].hdr).ok ) =>
          LET accepted ==
                 [user |-> BasicAuth(req[r].hdr).user,
                  pwd  |-> BasicAuth(req[r].hdr).pwd] \in Registry
          IN  /\ "login" \in req[r].calls
              /\ Forwarded(req[r]) <=> accepted
              /\ accepted => req[r].err = Nil /\ req[r].resp = <<>>
              /\ ~accepted => /\ req[r].err # Nil
                              /\ req[r].resp = <<req[r].err>>

C5_Witness ==
    \E r \in Requests :
       /\ Done(req[r])
       /\ req[r].auth = "on"
       /\ BasicOnly(Gate(req[r]))
       /\ req[r].ba.ok
       /\ "login" \in req[r].calls
       /\ ~Forwarded(req[r])

(***************************************************************************)
(* C6.  On a TokenOnly gate, for a request whose token verified and whose  *)
(* certificate lookup returned exactly one record, the request is          *)
(* forwarded when that record's status is "good" and rejected with         *)
(* authError for every other status.                                       *)
(***************************************************************************)
C6_StatusGate ==
    \A r \in Requests :
       ( /\ Done(req[r])
         /\ TokenOnly(Gate(req[r]))
         /\ req[r].cert # NoCert
         /\ "store" \in req[r].calls
         /\ req[r].dberr = Nil
         /\ Len(req[r].certs) = 1 ) =>
          IF req[r].certs[1].status = "good"
          THEN Forwarded(req[r]) /\ req[r].err = Nil /\ req[r].resp = <<>>
          ELSE RejectedWith(req[r], authError)

C6_Witness ==
    \E r \in Requests :
       /\ Done(req[r])
       /\ TokenOnly(Gate(req[r]))
       /\ req[r].cert # NoCert
       /\ req[r].dberr = Nil
       /\ Len(req[r].certs) = 1
       /\ req[r].certs[1].status = "expired"
       /\ RejectedWith(req[r], authError)

(***************************************************************************)
(* C7.  On a TokenOnly gate, for a request whose token verified, a lookup  *)
(* that returns an error, no record, or two or more records rejects the    *)
(* request with authError and the next handler is not invoked, whatever    *)
(* the status of the records returned.                                     *)
(***************************************************************************)
C7_NotExactlyOneRecord ==
    \A r \in Requests :
       ( /\ Done(req[r])
         /\ TokenOnly(Gate(req[r]))
         /\ req[r].cert # NoCert
         /\ "store" \in req[r].calls
         /\ (req[r].dberr # Nil \/ Len(req[r].certs) # 1) ) =>
          RejectedWith(req[r], authError)

C7_Witness ==
    \E r \in Requests :
       /\ Done(req[r])
       /\ TokenOnly(Gate(req[r]))
       /\ req[r].cert # NoCert
       /\ req[r].dberr = Nil
       /\ Len(req[r].certs) = 2
       /\ req[r].certs[1].status = "good"
       /\ RejectedWith(req[r], authError)

(***************************************************************************)
(* C8.  On a TokenOnly gate with authentication enabled and a non-Basic    *)
(* Authorization header, a failure to read the body or a failure of token  *)
(* verification rejects the request with authError; the certificate store  *)
(* is not consulted and the next handler is not invoked.                   *)
(***************************************************************************)
C8_VerificationFailure ==
    \A r \in Requests :
       ( /\ req[r].pc \in {"login", "lookup", "done"}
         /\ req[r].auth = "on"
         /\ TokenOnly(Gate(req[r]))
         /\ req[r].hdr # <<>>
         /\ ~BasicAuth(req[r].hdr).ok
         /\ \/ req[r].in.broken
            \/ VerifyToken(req[r].hdr, req[r].in.data).err # Nil ) =>
          /\ Done(req[r])
          /\ RejectedWith(req[r], authError)
          /\ "store" \notin req[r].calls

C8_Witness ==
    \E r \in Requests :
       /\ Done(req[r])
       /\ req[r].auth = "on"
       /\ TokenOnly(Gate(req[r]))
       /\ req[r].hdr = <<"certA", ".", "sig1">>
       /\ ~req[r].in.broken
       /\ req[r].in.data = <<2, 1>>
       /\ "verify" \in req[r].calls
       /\ RejectedWith(req[r], authError)

(***************************************************************************)
(* C9.  A request that reads authenticationEnabled as false is forwarded   *)
(* to the next handler on every gate, whatever its headers (an absent      *)
(* Authorization header included), and the bypass is decided before any    *)
(* credential is parsed: the registry, the body, the token verifier and    *)
(* the certificate store are not used.                                     *)
(***************************************************************************)
C9_Bypass ==
    \A r \in Requests :
       req[r].auth = "off" =>
          /\ Done(req[r])
          /\ req[r].err = Nil
          /\ req[r].resp = <<>>
          /\ req[r].fwd = <<req[r].in>>
          /\ req[r].calls = {}
          /\ req[r].ba = IdleReq.ba

C9_Witness ==
    \E r \in Requests :
       /\ req[r].auth = "off"
       /\ req[r].hdr = <<>>
       /\ TokenOnly(Gate(req[r]))
       /\ Forwarded(req[r])

(***************************************************************************)
(* C10.  With authentication enabled, a request without an Authorization   *)
(* header is rejected with errNoAuthHdr on every gate, BasicOnly and       *)
(* TokenOnly alike, and the next handler is not invoked.                   *)
(***************************************************************************)
C10_MissingHeader ==
    \A r \in Requests :
       ( /\ req[r].pc \in {"login", "lookup", "done"}
         /\ req[r].auth = "on"
         /\ req[r].hdr = <<>> ) =>
          /\ Done(req[r])
          /\ RejectedWith(req[r], errNoAuthHdr)
          /\ req[r].calls = {}

C10_Witness ==
    \E r \in Requests :
       /\ Done(req[r])
       /\ req[r].auth = "on"
       /\ req[r].hdr = <<>>
       /\ BasicOnly(Gate(req[r]))
       /\ req[r].err = errNoAuthHdr

C12_ForwardXorReject ==
    \A r \in Requests :
       /\ ~Done(req[r]) => req[r].fwd = <<>> /\ req[r].resp = <<>>
       /\ Done(req[r]) =>
             \/ req[r].err = Nil /\ Len(req[r].fwd) = 1 /\ req[r].resp = <<>>
             \/ req[r].err # Nil /\ req[r].fwd = <<>>
                                 /\ req[r].resp = <<req[r].err>>

C12_Witness ==
    \E r \in Requests :
       /\ Done(req[r])
       /\ req[r].err = authError
       /\ req[r].resp = <<authError>>
       /\ req[r].fwd = <<>>

(***************************************************************************)
(* C13.  On a TokenOnly gate, whenever a request is forwarded after its    *)
(* body was read for token verification, the body stream handed to the     *)
(* next handler is unread (position 0, readable) and holds exactly the     *)
(* bytes the request arrived with.                                         *)
(***************************************************************************)
C13_BodyReplayed ==
    \A r \in Requests :
       ( /\ Done(req[r])
         /\ Forwarded(req[r])
         /\ TokenOnly(Gate(req[r]))
         /\ "readBody" \in req[r].calls ) =>
          /\ Len(req[r].fwd) = 1
          /\ req[r].fwd[1].pos = 0
          /\ ~req[r].fwd[1].broken
          /\ req[r].fwd[1].data = req[r].in.data
          /\ ReadAll(req[r].fwd[1]).bytes = ReadAll(req[r].in).bytes

C13_Witness ==
    \E r \in Requests :
       /\ Done(req[r])
       /\ Forwarded(req[r])
       /\ TokenOnly(Gate(req[r]))
       /\ {"readBody", "verify", "store"} \subseteq req[r].calls
       /\ req[r].in.data # <<>>

(***************************************************************************)
(* C14.  NewAuthWrapper called with a non-nil construction error returns   *)
(* that same error and a nil handler, for every endpoint name; no gate     *)
(* exists for that route, so no request is ever handled on it.             *)
(***************************************************************************)
C14_ConstructionError ==
    /\ \A p \in Paths :
          (routes[p].called /\ routes[p].errArg # Nil) =>
             /\ routes[p].err = routes[p].errArg
             /\ routes[p].handler = NilHandler
    /\ \A r \in Requests :
          req[r].pc # "idle" => routes[req[r].path].errArg = Nil
    /\ ~serving =>
          \A p \in IssuanceNames \cup OtherNames, e \in {errSetup, errLogin} :
             /\ NewAuthWrapperResult(p, p, e).err = e
             /\ NewAuthWrapperResult(p, p, e).handler = NilHandler

C14_Witness ==
    \E p \in Paths, q \in Paths :
       /\ serving
       /\ routes[p].errArg = errSetup
       /\ routes[p].handler.nil
       /\ IsBasicPath(p) /\ ~IsBasicPath(q)
       /\ routes[q].errArg = errSetup

(***************************************************************************)
(* C15.  A gate built before authenticationEnabled changed decides every   *)
(* request under the value the flag has when that request reads it: the    *)
(* request is bypassed (forwarded with nothing checked) when the flag is   *)
(* false at that moment, and when it is true a request without a header    *)
(* is rejected, whatever the flag was when the gate was built.             *)
(***************************************************************************)
C15_LiveConfig ==
    [][ \A r \in Requests :
           (req[r].pc = "start" /\ req'[r].pc # "start") =>
              /\ req'[r].auth = IF CFG.Authentication THEN "on" ELSE "off"
              /\ ~CFG.Authentication =>
                    /\ Done(req'[r])
                    /\ Forwarded(req'[r])
                    /\ req'[r].calls = {}
              /\ (CFG.Authentication /\ req[r].hdr = <<>>) =>
                    RejectedWith(req'[r], errNoAuthHdr) ]_vars

\* the flag was true when the gates were built (Init, SetAuthentication);
\* a request with a rejected secret has since been bypassed
C15_Witness ==
    \E r \in Requests :
       /\ Done(req[r])
       /\ req[r].auth = "off"
       /\ BasicOnly(Gate(req[r]))
       /\ req[r].hdr = <<"Basic ", "u1", ":", "p2">>
       /\ Forwarded(req[r])
       /\ ~CFG.Authentication

(***************************************************************************)
(* C16.  The policy (basic, token) and the next handler of a wrapped       *)
(* handler are fixed when NewAuthWrapper returns: no step of any request,  *)
(* forwarded or rejected, and no later step of the server changes them.    *)
(***************************************************************************)
C16_PolicyFixed ==
    [][ \A p \in Paths : routes[p].called => routes'[p] = routes[p] ]_vars

C16_Witness ==
    \E r \in Requests :
       /\ Done(req[r])
       /\ "login" \in req[r].calls
       /\ req[r].err = errLogin
       /\ Gate(req[r]) = [nil |-> FALSE, basic |-> TRUE, token |-> FALSE,
                          next |-> req[r].path]

C18_OwnCapabilityOnly ==
    \A r \in Requests :
       req[r].pc # "idle" =>
          /\ TokenOnly(Gate(req[r])) =>
                /\ "login" \notin req[r].calls
                /\ req[r].pc # "login"
          /\ BasicOnly(Gate(req[r])) =>
                /\ req[r].calls \subseteq {"login"}
                /\ req[r].pc # "lookup"
                /\ req[r].body = req[r].in
                /\ req[r].cert = NoCert
                /\ req[r].certs = <<>>

\* a token presented to a BasicOnly gate: no capability is used for it
C18_Witness ==
    \E r \in Requests :
       /\ Done(req[r])
       /\ req[r].auth = "on"
       /\ BasicOnly(Gate(req[r]))
       /\ req[r].hdr = <<"certA", ".", "sig1">>
       /\ req[r].calls = {}

ConcPaths == {"enroll", "revoke"}

ConcHeaders ==
    { <<>>,
      <<"Basic ", "u1", ":", "p1">>,
      <<"Basic ", "u1", ":", "p2">>,
      <<"certA", ".", "sig1">>,
      <<"certC", ".", "sig1">> }

ConcBodies ==
    { [data |-> <<1>>,    pos |-> 0, broken |-> FALSE],
      [data |-> <<2, 1>>, pos |-> 0, broken |-> FALSE] }

InitConc ==
    /\ routes = [p \in Paths |->
                   [called |-> TRUE, errArg |-> Nil]
                      @@ NewAuthWrapperResult(p, p, Nil)]
    /\ serving = TRUE
    /\ CFG \in [Authentication : BOOLEAN]
    /\ \E st \in {"good", "revoked"} :
          certDB = [rows |-> [InitRows EXCEPT ![1].status = st]]
    /\ req = [r \in Slots |-> IdleReq]

NextConc ==
    \/ \E r \in ConcRequests, path \in ConcPaths, hdr \in ConcHeaders,
          body \in ConcBodies :
          Receive(r, path, hdr, body)
    \/ \E r \in ConcRequests : Authenticate(r)
    \/ \E r \in ConcRequests : Login(r)
    \/ \E r \in ConcRequests, fails \in BOOLEAN : Lookup(r, fails)

SpecConc == InitConc /\ [][NextConc]_vars

\* the request rq as it arrived
Arrived(rq) ==
    [IdleReq EXCEPT !.pc = "start", !.path = rq.path, !.hdr = rq.hdr,
                    !.in = rq.in, !.body = rq.in]

\* ServeHTTP run from its first line to its last with no other request
\* in between
Alone(rq, ah, cfg, db, fails) ==
    LET entered == Enter(rq, ah, cfg)
    IN  IF entered.pc = "login" THEN AfterLogin(entered)
        ELSE IF entered.pc = "lookup" THEN AfterLookup(entered, db, fails)
        ELSE entered

(***************************************************************************)
(* C20.  With the configuration and the certificate store constant, for    *)
(* every interleaving of the steps of the requests in flight, through the  *)
(* same gate or different gates, each finished request has the outcome     *)
(* (forwarded, or rejected with which error), the forwarded body and the   *)
(* response it has when handled alone, the answer of the store to its      *)
(* lookup being the same.                                                  *)
(***************************************************************************)
C20_NonInterference ==
    \A r \in ConcRequests :
       Done(req[r]) =>
          req[r] = Alone(Arrived(req[r]), Gate(req[r]), CFG, certDB,
                         req[r].dberr # Nil)

\* two requests with the same token on the same gate, one still in flight
\* at its lookup, the other finished and rejected as its body differs
C20_Witness ==
    \E r \in ConcRequests, q \in ConcRequests :
       /\ r # q
       /\ req[r].path = "revoke" /\ req[q].path = "revoke"
       /\ req[r].hdr = <<"certA", ".", "sig1">> /\ req[q].hdr = req[r].hdr
       /\ req[r].pc = "lookup"
       /\ Done(req[q])
       /\ req[q].in.data = <<2, 1>>
       /\ RejectedWith(req[q], authError)
====
